---- MODULE Spec2Model ----
(***************************************************************************)
(* Model of the authorization decision pipeline of app-policy (Dikastes):  *)
(* the SPIFFE ID parser, the rule matchers (server/match.go) and the Check *)
(* handler (server/server.go).                                             *)
(*                                                                         *)
(* Go strings that the code inspects character by character (principals,   *)
(* service account names) are sequences of one-character strings; strings  *)
(* the code only compares for equality (HTTP methods, selector             *)
(* expressions, label values) are TLA+ strings.  A nil pointer is Nil.     *)
(***************************************************************************)
EXTENDS Integers, Sequences, FiniteSets, TLC

VARIABLES
    id, parsed,                         \* parseSpiffeId: argument, named results
    rule, req, matched,                 \* match: arguments, results
    spiffeIdRegExp, gpc, gid, gseen, gret, gcalls, writers, regexpWrites,
                                        \* concurrent parseSpiffeId calls
    cpc, creq, cidErr, ep, epErr, polErr, policies, resp, retErr,
    nGetEndpoint, nGetPolicies, nReturns \* Check

parseVars == <<id, parsed>>
matchVars == <<rule, req, matched>>
raceVars  == <<spiffeIdRegExp, gpc, gid, gseen, gret, gcalls, writers, regexpWrites>>
checkVars == <<cpc, creq, cidErr, ep, epErr, polErr, policies, resp, retErr,
               nGetEndpoint, nGetPolicies, nReturns>>
vars == <<parseVars, matchVars, raceVars, checkVars>>

Nil == [nil |-> TRUE]
NilSlice == << >>

----------------------------------------------------------------------------
(* Bounds *)

MaxSegs == 7         \* '/'-separated segments of a candidate principal
MaxNames == 2        \* length of ServiceAccountMatch.Names (matchServiceAccounts alone)
MaxMethods == 2      \* length of HTTPRule.Methods (matchHTTP alone)
MaxRuleNames == 1    \* length of ServiceAccountMatch.Names (whole rules)
MaxRuleMethods == 1  \* length of HTTPRule.Methods (whole rules)
MaxPolicies == 2     \* policies returned by GetPolicies
NumGoroutines == 2   \* concurrent parseSpiffeId callers
MaxCalls == 2        \* parseSpiffeId calls per goroutine

----------------------------------------------------------------------------
(* Character strings *)

EmptyStr == << >>
Slash == "/"

S_spiffe == <<"s", "p", "i", "f", "f", "e", ":">>
S_ns == <<"n", "s">>
S_sa == <<"s", "a">>
S_foo == <<"f", "o", "o">>
S_bar == <<"b", "a", "r">>
S_cl == <<"c", "l">>

RECURSIVE Join(_)
\* segs[1] "/" segs[2] "/" ... "/" segs[n]
Join(segs) ==
    IF Len(segs) = 0 THEN EmptyStr
    ELSE IF Len(segs) = 1 THEN segs[1]
    ELSE segs[1] \o <<Slash>> \o Join(Tail(segs))

RECURSIVE Split(_)
\* strings.Split(s, "/"): the inverse of Join on a sequence of slash-free segments
Split(s) ==
    IF \A i \in 1..Len(s) : s[i] # Slash THEN <<s>>
    ELSE LET k == CHOOSE i \in 1..Len(s) :
                      s[i] = Slash /\ \A j \in 1..(i - 1) : s[j] # Slash
         IN <<SubSeq(s, 1, k - 1)>> \o Split(SubSeq(s, k + 1, Len(s)))

\* fmt.Sprintf("spiffe://%s/ns/%s/sa/%s", domain, namespace, account)
Spiffe(domain, ns, sa) ==
    Join(<<S_spiffe, EmptyStr, domain, S_ns, ns, S_sa, sa>>)

----------------------------------------------------------------------------
(* regexp: the fragment of RE2 syntax that SPIFFE_ID_PATTERN uses *)

Bol == [t |-> "bol"]
Eol == [t |-> "eol"]
Lit(c) == [t |-> "lit", c |-> c]
\* ([^c]+) as capture group g
NotPlus(c, g) == [t |-> "notplus", c |-> c, g |-> g]

Lits(s) == [i \in 1..Len(s) |-> Lit(s[i])]

\* "^spiffe://[^/]+/ns/([^/]+)/sa/([^/]+)$"
SPIFFE_ID_PATTERN ==
    <<Bol>> \o Lits(S_spiffe) \o <<Lit(Slash), Lit(Slash), NotPlus(Slash, 0)>>
    \o <<Lit(Slash)>> \o Lits(S_ns) \o <<Lit(Slash), NotPlus(Slash, 1)>>
    \o <<Lit(Slash)>> \o Lits(S_sa) \o <<Lit(Slash), NotPlus(Slash, 2)>>
    \o <<Eol>>

NoMatch == [ok |-> FALSE, end |-> 0, caps |-> <<EmptyStr, EmptyStr>>]

SetMin(S) == CHOOSE x \in S : \A y \in S : x <= y

\* number of consecutive characters other than c in s from position si
RunLen(s, si, c) ==
    LET stops == {j \in si..Len(s) : s[j] = c}
    IN IF stops = {} THEN Len(s) - si + 1 ELSE SetMin(stops) - si

RECURSIVE RxMatch(_, _, _, _, _)
RECURSIVE RxRepeat(_, _, _, _, _, _)

\* backtracking match of pat[pi..] against s at position si (leftmost-first)
RxMatch(pat, pi, s, si, caps) ==
    IF pi > Len(pat) THEN [ok |-> TRUE, end |-> si, caps |-> caps]
    ELSE LET tok == pat[pi] IN
        CASE tok.t = "bol" ->
                IF si = 1 THEN RxMatch(pat, pi + 1, s, si, caps) ELSE NoMatch
          [] tok.t = "eol" ->
                IF si = Len(s) + 1 THEN RxMatch(pat, pi + 1, s, si, caps) ELSE NoMatch
          [] tok.t = "lit" ->
                IF si <= Len(s) /\ s[si] = tok.c
                THEN RxMatch(pat, pi + 1, s, si + 1, caps) ELSE NoMatch
          [] tok.t = "notplus" ->
                RxRepeat(pat, pi, s, si, caps, RunLen(s, si, tok.c))

\* greedy [^c]+ at pat[pi]: the longest run first, then shorter ones, at least one
RxRepeat(pat, pi, s, si, caps, k) ==
    IF k < 1 THEN NoMatch
    ELSE LET tok == pat[pi]
             caps2 == IF tok.g = 0 THEN caps
                      ELSE [caps EXCEPT ![tok.g] = SubSeq(s, si, si + k - 1)]
             r == RxMatch(pat, pi + 1, s, si + k, caps2)
         IN IF r.ok THEN r ELSE RxRepeat(pat, pi, s, si, caps, k - 1)

\* (*Regexp).FindStringSubmatch: nil, or match[0..2] of the leftmost match
FindStringSubmatch(pat, s) ==
    LET starts == {i \in 1..(Len(s) + 1) :
                       RxMatch(pat, 1, s, i, <<EmptyStr, EmptyStr>>).ok}
    IN IF starts = {} THEN NilSlice
       ELSE LET b == SetMin(starts)
                m == RxMatch(pat, 1, s, b, <<EmptyStr, EmptyStr>>)
            IN [i \in 0..2 |-> IF i = 0 THEN SubSeq(s, b, m.end - 1) ELSE m.caps[i]]

\* parseSpiffeId with the two capture groups exchanged
parseSpiffeId_swapped(s) ==
    LET match == FindStringSubmatch(SPIFFE_ID_PATTERN, s)
    IN IF match = NilSlice
       THEN [name |-> EmptyStr, namespace |-> EmptyStr, err |-> "error"]
       ELSE [name |-> match[1], namespace |-> match[2], err |-> "nil"]

\* parseSpiffeId(id) (name, namespace string, err error)
parseSpiffeId(s) ==
    LET match == FindStringSubmatch(SPIFFE_ID_PATTERN, s)
    IN IF match = NilSlice
       THEN [name |-> EmptyStr, namespace |-> EmptyStr, err |-> "error"]
       ELSE [name |-> match[2], namespace |-> match[1], err |-> "nil"]

----------------------------------------------------------------------------
(* Generated protobuf getters: nil-safe field reads *)

GetAttributes(r) == IF r = Nil THEN Nil ELSE r.Attributes
GetSource(attr) == IF attr = Nil THEN Nil ELSE attr.Source
GetRequest(attr) == IF attr = Nil THEN Nil ELSE attr.Request
GetHttp(request) == IF request = Nil THEN Nil ELSE request.Http
GetMethod(http) == IF http = Nil THEN "" ELSE http.Method
GetPrincipal(peer) == IF peer = Nil THEN EmptyStr ELSE peer.Principal
GetLabels(peer) == IF peer = Nil THEN << >> ELSE peer.Labels

----------------------------------------------------------------------------
(* libcalico-go selector: the expressions the model's rules carry *)

SelectorStrs == {"", "role == 'web'", "has(role)", "role =="}

\* selector.Parse(selectorStr) (Selector, error)
selectorParse(selectorStr) ==
    CASE selectorStr = "" -> [err |-> "nil", sel |-> [op |-> "all"]]
      [] selectorStr = "role == 'web'" ->
            [err |-> "nil", sel |-> [op |-> "eq", key |-> "role", val |-> "web"]]
      [] selectorStr = "has(role)" ->
            [err |-> "nil", sel |-> [op |-> "has", key |-> "role"]]
      [] OTHER -> [err |-> "error", sel |-> Nil]

\* Selector.Evaluate(labels map[string]string) bool
selectorEvaluate(sel, labels) ==
    CASE sel.op = "all" -> TRUE
      [] sel.op = "eq" -> sel.key \in DOMAIN labels /\ labels[sel.key] = sel.val
      [] sel.op = "has" -> sel.key \in DOMAIN labels

----------------------------------------------------------------------------
(* server/match.go *)

RECURSIVE rangeNames(_, _, _)
\* for _, name2 := range names { if name2 == name { return true } }; return false
rangeNames(names, i, name) ==
    IF i > Len(names) THEN FALSE
    ELSE IF names[i] = name THEN TRUE
    ELSE rangeNames(names, i + 1, name)

\* matchServiceAccountName without the empty-list case
matchServiceAccountName_noEmpty(names, name) == rangeNames(names, 1, name)

matchServiceAccountName(names, name) ==
    IF Len(names) = 0 THEN TRUE ELSE rangeNames(names, 1, name)

matchServiceAccountLabels(selectorStr, labels) ==
    LET p == selectorParse(selectorStr)
    IN IF p.err # "nil" THEN FALSE ELSE selectorEvaluate(p.sel, labels)

\* matchServiceAccounts with the nil check ahead of the parse
matchServiceAccounts_nilFirst(saMatch, peer) ==
    LET principle == GetPrincipal(peer)
        labels == GetLabels(peer)
        p == parseSpiffeId(principle)
    IN IF saMatch = Nil THEN TRUE
       ELSE IF p.err # "nil" THEN FALSE
       ELSE matchServiceAccountName(saMatch.Names, p.name)
            /\ matchServiceAccountLabels(saMatch.Selector, labels)

matchServiceAccounts(saMatch, peer) ==
    LET principle == GetPrincipal(peer)
        labels == GetLabels(peer)
        p == parseSpiffeId(principle)
    IN IF p.err # "nil" THEN FALSE
       ELSE IF saMatch = Nil THEN TRUE
       ELSE matchServiceAccountName(saMatch.Names, p.name)
            /\ matchServiceAccountLabels(saMatch.Selector, labels)

\* the loop of matchHTTPMethods giving up after the first element
rangeMethods_firstOnly(methods, i, reqMethod) ==
    IF i > Len(methods) THEN FALSE
    ELSE IF methods[i] = "*" THEN TRUE
    ELSE IF methods[i] = reqMethod THEN TRUE
    ELSE FALSE

RECURSIVE rangeMethods(_, _, _)
\* the loop of matchHTTPMethods, from index i
rangeMethods(methods, i, reqMethod) ==
    IF i > Len(methods) THEN FALSE
    ELSE IF methods[i] = "*" THEN TRUE
    ELSE IF methods[i] = reqMethod THEN TRUE
    ELSE rangeMethods(methods, i + 1, reqMethod)

matchHTTPMethods(methods, reqMethod) ==
    IF Len(methods) = 0 THEN TRUE ELSE rangeMethods(methods, 1, reqMethod)

matchHTTP(httpRule, httpReq) ==
    IF httpRule = Nil THEN TRUE
    ELSE matchHTTPMethods(httpRule.Methods, GetMethod(httpReq))

matchRequest(r, request) == matchHTTP(r.HTTP, GetHttp(request))

matchPeer(er, peer) == matchServiceAccounts(er.ServiceAccounts, peer)

\* match without the peer conjunct
match_requestOnly(r, request) ==
    LET attr == GetAttributes(request)
    IN matchRequest(r, GetRequest(attr))

match(r, request) ==
    LET attr == GetAttributes(request)
    IN matchPeer(r.Source, GetSource(attr)) /\ matchRequest(r, GetRequest(attr))

----------------------------------------------------------------------------
(* Idle values of the variables a specification does not use *)

NotCalled == [called |-> FALSE]

IdleParse == id = EmptyStr /\ parsed = NotCalled
IdleMatch == rule = Nil /\ req = Nil /\ matched = NotCalled
IdleRace ==
    /\ spiffeIdRegExp = "nil" /\ gpc = << >> /\ gid = << >> /\ gseen = << >>
    /\ gret = << >> /\ gcalls = << >> /\ writers = {} /\ regexpWrites = 0
IdleCheck ==
    /\ cpc = "idle" /\ creq = Nil /\ cidErr = "nil" /\ ep = Nil
    /\ epErr = "nil" /\ polErr = "nil"
    /\ policies = NilSlice /\ resp = Nil /\ retErr = "nil"
    /\ nGetEndpoint = 0 /\ nGetPolicies = 0 /\ nReturns = 0

----------------------------------------------------------------------------
(* parseSpiffeId as a pure function of its argument *)

SegAtoms == {EmptyStr, S_spiffe, S_ns, S_sa, S_cl}

\* the strings of at most n segments
Ids(n) == {Join(segs) : segs \in UNION {[1..k -> SegAtoms] : k \in 0..n}}

InitParse ==
    /\ id \in Ids(MaxSegs)
    /\ parsed = NotCalled
    /\ IdleMatch /\ IdleRace /\ IdleCheck

CallParseSpiffeId ==
    /\ ~parsed.called
    /\ parsed' = [called |-> TRUE, ret |-> parseSpiffeId(id)]
    /\ UNCHANGED <<id, matchVars, raceVars, checkVars>>

NextParse == CallParseSpiffeId

SpecParse == InitParse /\ [][NextParse]_vars

----------------------------------------------------------------------------
(* The matchers as pure functions of a rule and a request *)

SeqsUpTo(S, n) == UNION {[1..k -> S] : k \in 0..n}

Accounts == {S_foo, S_bar}
Namespaces == {S_foo, S_bar}
Domains == {S_cl, S_foo}

WellFormedPrincipals ==
    {Spiffe(d, n, a) : d \in Domains, n \in Namespaces, a \in Accounts}

MalformedPrincipals ==
    { EmptyStr,
      S_bar,
      Join(<<S_spiffe, EmptyStr, S_cl, S_ns, S_foo>>),
      Join(<<S_spiffe, EmptyStr, S_cl, S_ns, S_foo, S_sa, S_bar, EmptyStr>>) }

LabelMaps == {<< >>, [k \in {"role"} |-> "web"], [k \in {"role"} |-> "db"]}

MethodTokens == {"*", "GET", ""}

SAMatches(n) == [Names : SeqsUpTo(Accounts, n), Selector : SelectorStrs]

HTTPRules(n) == [Methods : SeqsUpTo(MethodTokens, n)]

Peers == [Principal : WellFormedPrincipals \cup MalformedPrincipals, Labels : LabelMaps]

HTTPRequests == [Method : {"GET", "POST"}]

Requests == {Nil} \cup [Http : {Nil} \cup HTTPRequests]

MkRule(sa, http) == [Source |-> [ServiceAccounts |-> sa], HTTP |-> http]

MkReq(peer, request) == [Attributes |-> [Source |-> peer, Request |-> request]]

\* matchHTTP
InitHTTP ==
    /\ rule \in {MkRule(Nil, h) : h \in {Nil} \cup HTTPRules(MaxMethods)}
    /\ req \in {Nil} \cup {MkReq(Nil, r) : r \in Requests}
    /\ matched = NotCalled
    /\ IdleParse /\ IdleRace /\ IdleCheck

CallMatchHTTP ==
    /\ ~matched.called
    /\ matched' = [called |-> TRUE,
                   ret |-> matchHTTP(rule.HTTP, GetHttp(GetRequest(GetAttributes(req))))]
    /\ UNCHANGED <<rule, req, parseVars, raceVars, checkVars>>

NextHTTP == CallMatchHTTP

SpecHTTP == InitHTTP /\ [][NextHTTP]_vars

\* matchServiceAccounts
InitSA ==
    /\ rule \in {MkRule(sa, Nil) : sa \in {Nil} \cup SAMatches(MaxNames)}
    /\ req \in {Nil} \cup {MkReq(p, Nil) : p \in {Nil} \cup Peers}
    /\ matched = NotCalled
    /\ IdleParse /\ IdleRace /\ IdleCheck

CallMatchServiceAccounts ==
    /\ ~matched.called
    /\ matched' = [called |-> TRUE,
                   ret |-> matchServiceAccounts(rule.Source.ServiceAccounts,
                                                GetSource(GetAttributes(req)))]
    /\ UNCHANGED <<rule, req, parseVars, raceVars, checkVars>>

NextSA == CallMatchServiceAccounts

SpecSA == InitSA /\ [][NextSA]_vars

\* match
InitMatch ==
    /\ rule \in {MkRule(sa, h) : sa \in {Nil} \cup SAMatches(MaxRuleNames),
                                  h \in {Nil} \cup HTTPRules(MaxRuleMethods)}
    /\ req \in {Nil} \cup {MkReq(p, r) : p \in {Nil} \cup Peers, r \in Requests}
    /\ matched = NotCalled
    /\ IdleParse /\ IdleRace /\ IdleCheck

CallMatch ==
    /\ ~matched.called
    /\ matched' = [called |-> TRUE, ret |-> match(rule, req)]
    /\ UNCHANGED <<rule, req, parseVars, raceVars, checkVars>>

NextMatch == CallMatch

SpecMatch == InitMatch /\ [][NextMatch]_vars

----------------------------------------------------------------------------
(* Concurrent calls of parseSpiffeId, one statement at a time.  The package   *)
(* variable spiffeIdRegExp is read and written without synchronisation: a     *)
(* goroutine that has not written it itself may still read nil after another  *)
(* goroutine's write.                                                         *)

Goroutines == 1..NumGoroutines

RacePrincipals ==
    {Spiffe(S_cl, S_foo, S_bar), Spiffe(S_cl, S_bar, S_foo), S_bar}

InitRace ==
    /\ spiffeIdRegExp = "nil"
    /\ gpc = [g \in Goroutines |-> "idle"]
    /\ gid = [g \in Goroutines |-> EmptyStr]
    /\ gseen = [g \in Goroutines |-> "nil"]
    /\ gret = [g \in Goroutines |-> NotCalled]
    /\ gcalls = [g \in Goroutines |-> 0]
    /\ writers = {}
    /\ regexpWrites = 0
    /\ IdleParse /\ IdleMatch /\ IdleCheck

\* a Check in flight reaches parseSpiffeId(id)
ParseEnter(g) ==
    /\ gpc[g] \in {"idle", "done"}
    /\ gcalls[g] < MaxCalls
    /\ \E s \in RacePrincipals : gid' = [gid EXCEPT ![g] = s]
    /\ gcalls' = [gcalls EXCEPT ![g] = @ + 1]
    /\ gpc' = [gpc EXCEPT ![g] = "L82"]
    /\ UNCHANGED <<spiffeIdRegExp, gseen, gret, writers, regexpWrites,
                   parseVars, matchVars, checkVars>>

\* if spiffeIdRegExp == nil
ParseTestNil(g) ==
    /\ gpc[g] = "L82"
    /\ \E v \in (IF g \in writers THEN {spiffeIdRegExp} ELSE {"nil", spiffeIdRegExp}) :
          /\ gseen' = [gseen EXCEPT ![g] = v]
          /\ gpc' = [gpc EXCEPT ![g] = IF v = "nil" THEN "L84" ELSE "L86"]
    /\ UNCHANGED <<spiffeIdRegExp, gid, gret, gcalls, writers, regexpWrites,
                   parseVars, matchVars, checkVars>>

\* spiffeIdRegExp, _ = regexp.Compile(SPIFFE_ID_PATTERN)
ParseCompile(g) ==
    /\ gpc[g] = "L84"
    /\ spiffeIdRegExp' = "compiled"
    /\ regexpWrites' = regexpWrites + 1
    /\ writers' = writers \cup {g}
    /\ gpc' = [gpc EXCEPT ![g] = "L86"]
    /\ UNCHANGED <<gid, gseen, gret, gcalls, parseVars, matchVars, checkVars>>

\* match := spiffeIdRegExp.FindStringSubmatch(id) ... return
ParseFind(g) ==
    /\ gpc[g] = "L86"
    /\ gret' = [gret EXCEPT ![g] = [called |-> TRUE, ret |-> parseSpiffeId(gid[g])]]
    /\ gpc' = [gpc EXCEPT ![g] = "done"]
    /\ UNCHANGED <<spiffeIdRegExp, gid, gseen, gcalls, writers, regexpWrites,
                   parseVars, matchVars, checkVars>>

NextRace ==
    \E g \in Goroutines :
        \/ ParseEnter(g)
        \/ ParseTestNil(g)
        \/ ParseCompile(g)
        \/ ParseFind(g)

SpecRace == InitRace /\ [][NextRace]_vars

----------------------------------------------------------------------------
(* server/server.go: auth_server.Check, one step per external call *)

INTERNAL == "INTERNAL"
OK == "OK"
PERMISSION_DENIED == "PERMISSION_DENIED"

Status(c) == [Status |-> [Code |-> c]]

R_any == MkRule(Nil, Nil)
R_barGet == MkRule([Names |-> <<S_bar>>, Selector |-> ""], [Methods |-> <<"GET">>])
R_web == MkRule([Names |-> << >>, Selector |-> "role == 'web'"], Nil)

PolicySet ==
    { [Ingress |-> << >>], [Ingress |-> <<R_barGet>>], [Ingress |-> <<R_web, R_barGet>>],
      [Ingress |-> <<R_any>>] }

PolicyLists == SeqsUpTo(PolicySet, MaxPolicies)

Endpoints == {[name |-> "web-1", namespace |-> "default"]}
NoEndpoint == [name |-> "", namespace |-> ""]

CheckRequests ==
    {MkReq([Principal |-> p, Labels |-> l], [Http |-> [Method |-> m]]) :
        p \in {Spiffe(S_cl, S_foo, S_bar), Spiffe(S_cl, S_foo, S_foo), S_bar},
        l \in {<< >>, [k \in {"role"} |-> "web"]},
        m \in {"GET", "POST"}}

\* checkPolicies(policies, req) status.Status: OK when a rule of a policy
\* matches the request, PERMISSION_DENIED otherwise
checkPolicies(ps, r) ==
    IF \E i \in 1..Len(ps) : \E j \in 1..Len(ps[i].Ingress) : match(ps[i].Ingress[j], r)
    THEN [Code |-> OK]
    ELSE [Code |-> PERMISSION_DENIED]

InitCheck ==
    /\ cpc = "idle" /\ creq = Nil /\ cidErr = "nil" /\ ep = Nil
    /\ epErr = "nil" /\ polErr = "nil"
    /\ policies = NilSlice /\ resp = Nil /\ retErr = "nil"
    /\ nGetEndpoint = 0 /\ nGetPolicies = 0 /\ nReturns = 0
    /\ IdleParse /\ IdleMatch /\ IdleRace

\* Check(ctx, req): resp := CheckResponse{Status: INTERNAL}
CheckEnter ==
    /\ cpc = "idle"
    /\ \E r \in CheckRequests : creq' = r
    /\ resp' = Status(INTERNAL)
    /\ cpc' = "L220"
    /\ UNCHANGED <<cidErr, ep, epErr, polErr, policies, retErr,
                   nGetEndpoint, nGetPolicies, nReturns,
                   parseVars, matchVars, raceVars>>

\* cid, err := getContainerFromContext(ctx); if err != nil { return &resp, nil }
CheckGetContainer ==
    /\ cpc = "L220"
    /\ \E e \in {"nil", "error"} :
          /\ cidErr' = e
          /\ IF e # "nil"
             THEN cpc' = "returned" /\ nReturns' = nReturns + 1 /\ retErr' = "nil"
             ELSE cpc' = "L225" /\ UNCHANGED <<nReturns, retErr>>
    /\ UNCHANGED <<creq, ep, epErr, polErr, policies, resp,
                   nGetEndpoint, nGetPolicies, parseVars, matchVars, raceVars>>

\* name, namespace, err := as.Query.GetEndpointFromContainer(cid, as.NodeName)
\* if err != nil { log.Errorf(...) }
CheckGetEndpoint ==
    /\ cpc = "L225"
    /\ nGetEndpoint' = nGetEndpoint + 1
    /\ \/ \E e \in Endpoints : ep' = e /\ epErr' = "nil"
       \/ ep' = NoEndpoint /\ epErr' = "error"
    /\ cpc' = "L229"
    /\ UNCHANGED <<creq, cidErr, polErr, policies, resp, retErr,
                   nGetPolicies, nReturns, parseVars, matchVars, raceVars>>

\* GetPolicies called again after a failure instead of returning
CheckGetPolicies_retry ==
    /\ cpc = "L229"
    /\ nGetPolicies' = nGetPolicies + 1
    /\ \/ /\ polErr' = "error" /\ policies' = NilSlice
          /\ cpc' = "L229" /\ UNCHANGED <<nReturns, retErr>>
       \/ /\ polErr' = "nil" /\ \E ps \in PolicyLists : policies' = ps
          /\ cpc' = "L234" /\ UNCHANGED <<nReturns, retErr>>
    /\ UNCHANGED <<creq, cidErr, ep, epErr, resp,
                   nGetEndpoint, parseVars, matchVars, raceVars>>

\* policies, err := as.Query.GetPolicies(name, namespace)
\* if err != nil { return &resp, nil }
CheckGetPolicies ==
    /\ cpc = "L229"
    /\ nGetPolicies' = nGetPolicies + 1
    /\ \/ /\ polErr' = "error" /\ policies' = NilSlice
          /\ cpc' = "returned" /\ nReturns' = nReturns + 1 /\ retErr' = "nil"
       \/ /\ polErr' = "nil" /\ \E ps \in PolicyLists : policies' = ps
          /\ cpc' = "L234" /\ UNCHANGED <<nReturns, retErr>>
    /\ UNCHANGED <<creq, cidErr, ep, epErr, resp,
                   nGetEndpoint, parseVars, matchVars, raceVars>>

\* st := checkPolicies(policies, req); resp.Status = &st; return &resp, nil
CheckEvaluate ==
    /\ cpc = "L234"
    /\ resp' = [Status |-> checkPolicies(policies, creq)]
    /\ cpc' = "returned" /\ nReturns' = nReturns + 1 /\ retErr' = "nil"
    /\ UNCHANGED <<creq, cidErr, ep, epErr, polErr, policies,
                   nGetEndpoint, nGetPolicies, parseVars, matchVars, raceVars>>

NextCheck ==
    \/ CheckEnter
    \/ CheckGetContainer
    \/ CheckGetEndpoint
    \/ CheckGetPolicies
    \/ CheckEvaluate

SpecCheck == InitCheck /\ [][NextCheck]_vars

----------------------------------------------------------------------------
(* Properties of the parser and the matchers *)

Range(f) == {f[i] : i \in DOMAIN f}

NoSlash(s) == \A i \in 1..Len(s) : s[i] # Slash

\* s is spiffe://<domain>/ns/<namespace>/sa/<name>, all three non-empty and slash-free
WellFormed(s) ==
    LET p == Split(s)
    IN /\ Len(p) = 7
       /\ p[1] = S_spiffe /\ p[2] = EmptyStr /\ p[4] = S_ns /\ p[6] = S_sa
       /\ p[3] # EmptyStr /\ p[5] # EmptyStr /\ p[7] # EmptyStr

ReqPeer == GetSource(GetAttributes(req))
ReqPrincipal == GetPrincipal(ReqPeer)
ReqMethod == GetMethod(GetHttp(GetRequest(GetAttributes(req))))

\* C6: parseSpiffeId either fails with empty name and namespace, or succeeds
\* with both non-empty and slash-free; it succeeds exactly on strings of the
\* form spiffe://<domain>/ns/<namespace>/sa/<name>, and then namespace is the
\* segment after /ns/ and name the segment after /sa/.
C6_ParseAllOrNothing ==
    parsed.called =>
        LET r == parsed.ret IN
        /\ r.err \in {"nil", "error"}
        /\ (r.err = "nil") <=> WellFormed(id)
        /\ r.err # "nil" => r.name = EmptyStr /\ r.namespace = EmptyStr
        /\ r.err = "nil" =>
              /\ r.namespace = Split(id)[5] /\ r.name = Split(id)[7]
              /\ r.name # EmptyStr /\ r.namespace # EmptyStr
              /\ NoSlash(r.name) /\ NoSlash(r.namespace)

C6_Witness ==
    /\ parsed.called /\ parsed.ret.err = "nil"
    /\ parsed.ret.name = S_cl /\ parsed.ret.namespace = S_sa

\* C1 as stated: a rule with no service-account constraint and no HTTP
\* constraint matches every request, whatever the peer principal is.
C1_Original ==
    (matched.called /\ rule.Source.ServiceAccounts = Nil /\ rule.HTTP = Nil)
        => matched.ret = TRUE

\* C1 amended: a rule with no service-account constraint and no HTTP constraint
\* matches exactly the requests whose peer principal is a well-formed SPIFFE ID.
C1_UnconstrainedRule ==
    (matched.called /\ rule.Source.ServiceAccounts = Nil /\ rule.HTTP = Nil)
        => (matched.ret <=> WellFormed(ReqPrincipal))

C1_Witness ==
    /\ matched.called /\ rule.Source.ServiceAccounts = Nil /\ rule.HTTP = Nil
    /\ WellFormed(ReqPrincipal) /\ ReqMethod = "POST" /\ matched.ret = TRUE

\* C3: for every rule, a request whose peer principal is not a well-formed
\* SPIFFE ID is not matched; the evaluator yields the boolean false.
C3_MalformedFailsClosed ==
    (matched.called /\ ~WellFormed(ReqPrincipal)) => matched.ret = FALSE

C3_Witness ==
    /\ matched.called /\ ~WellFormed(ReqPrincipal) /\ ReqPrincipal # EmptyStr
    /\ rule.Source.ServiceAccounts = Nil /\ rule.HTTP = Nil
    /\ matched.ret = FALSE

\* C10: exchanging the namespace and the trust domain of a well-formed peer
\* principal (same account name, labels and HTTP attributes) never changes
\* the verdict of match.
C10_NamespaceBlind ==
    matched.called =>
        \A d1 \in Domains, n1 \in Namespaces, a \in Accounts :
            ReqPrincipal = Spiffe(d1, n1, a) =>
                \A d2 \in Domains, n2 \in Namespaces :
                    match(rule, MkReq([ReqPeer EXCEPT !.Principal = Spiffe(d2, n2, a)],
                                      GetRequest(GetAttributes(req))))
                        = matched.ret

C10_Witness ==
    /\ matched.called /\ matched.ret = TRUE
    /\ ReqPrincipal = Spiffe(S_cl, S_foo, S_bar)
    /\ rule.Source.ServiceAccounts # Nil
    /\ rule.Source.ServiceAccounts.Names = <<S_bar>>

\* C4: matchHTTP is true exactly when the HTTP rule is absent, or its methods
\* list is empty, or contains "*", or contains the request method (the empty
\* string when the request has no HTTP attributes); every permutation of the
\* list gives the same result.
C4_MatchHTTP ==
    matched.called =>
        /\ matched.ret <=>
              \/ rule.HTTP = Nil
              \/ rule.HTTP.Methods = << >>
              \/ "*" \in Range(rule.HTTP.Methods)
              \/ ReqMethod \in Range(rule.HTTP.Methods)
        /\ rule.HTTP # Nil =>
              \A pi \in Permutations(DOMAIN rule.HTTP.Methods) :
                  matchHTTP([Methods |-> [i \in DOMAIN rule.HTTP.Methods |->
                                              rule.HTTP.Methods[pi[i]]]],
                            GetHttp(GetRequest(GetAttributes(req))))
                      = matched.ret

C4_Witness ==
    /\ matched.called /\ matched.ret = TRUE
    /\ rule.HTTP # Nil /\ rule.HTTP.Methods = <<"GET", "">>
    /\ GetHttp(GetRequest(GetAttributes(req))) = Nil

\* C5: with a service-account constraint present and a well-formed principal,
\* matchServiceAccounts is (names empty or the account name is in names) and
\* (selector empty, or it parses and holds of the peer labels); a selector
\* that does not parse gives false.
C5_MatchServiceAccounts ==
    LET sa == rule.Source.ServiceAccounts IN
    (matched.called /\ sa # Nil /\ WellFormed(ReqPrincipal)) =>
        /\ matched.ret <=>
              /\ sa.Names = << >> \/ Split(ReqPrincipal)[7] \in Range(sa.Names)
              /\ \/ sa.Selector = ""
                 \/ /\ selectorParse(sa.Selector).err = "nil"
                    /\ selectorEvaluate(selectorParse(sa.Selector).sel, GetLabels(ReqPeer))
        /\ selectorParse(sa.Selector).err # "nil" => matched.ret = FALSE

C5_Witness ==
    /\ matched.called /\ matched.ret = FALSE
    /\ rule.Source.ServiceAccounts # Nil
    /\ rule.Source.ServiceAccounts.Names = << >>
    /\ rule.Source.ServiceAccounts.Selector = "role =="
    /\ WellFormed(ReqPrincipal)

----------------------------------------------------------------------------
(* Properties of the concurrent parser and of Check *)

\* C7: under any interleaving of concurrent parseSpiffeId calls the package
\* variable spiffeIdRegExp is written at most once.
C7_Original == regexpWrites <= 1

\* C2: when obtaining the container ID, resolving the endpoint or fetching
\* the policies failed, the status Check returns is INTERNAL.
C2_Original ==
    (cpc = "returned" /\ (cidErr # "nil" \/ epErr # "nil" \/ polErr # "nil"))
        => resp.Status.Code = INTERNAL

\* C8: once GetEndpointFromContainer has failed, GetPolicies is not called
\* for that request.
C8_Original == epErr # "nil" => nGetPolicies = 0

Line(pc) ==
    CASE pc = "idle" -> 219
      [] pc = "L220" -> 220
      [] pc = "L225" -> 225
      [] pc = "L229" -> 229
      [] pc = "L234" -> 234
      [] pc = "returned" -> 241

C9_Counts ==
    /\ nGetEndpoint <= 1 /\ nGetPolicies <= 1 /\ nReturns <= 1
    /\ cpc = "returned" <=> nReturns = 1
    /\ cpc = "returned" =>
          /\ resp # Nil /\ resp.Status.Code \in {INTERNAL, OK, PERMISSION_DENIED}
          /\ retErr = "nil"

\* C9: Check is a single pass: every step moves forward in the handler,
\* GetEndpointFromContainer and GetPolicies are each called at most once, and
\* every path returns once, a non-nil CheckResponse and a nil error.
C9_SinglePass == [](C9_Counts) /\ [][Line(cpc') > Line(cpc)]_vars

C9_Witness ==
    /\ cpc = "returned" /\ epErr = "error" /\ polErr = "error"
    /\ nGetEndpoint = 1 /\ nGetPolicies = 1 /\ nReturns = 1
    /\ resp = Status(INTERNAL) /\ retErr = "nil"

====
